---- MODULE Spec2Model ----
(***************************************************************************)
(* Model of macros_crate/src/lib.rs: the two procedural macros             *)
(* make_item_const and print_foreign_item.  Both are annotated with        *)
(* #[import_tokens_proc], so the `tokens` parameter of each body is bound  *)
(* to the tokens of the foreign item, while the use site wrote a path.     *)
(*                                                                         *)
(* Text is a sequence of one-character strings.  A token is a record       *)
(* [kind, text, spacing]; a token stream is a sequence of tokens.          *)
(***************************************************************************)
EXTENDS Integers, Sequences, FiniteSets

VARIABLES log, stdout, emitted

vars == <<log, stdout, emitted>>

\* ------------------------------------------------------------------ bounds
MaxLen == 2          \* longest imported token stream
MaxInvocations == 2  \* macro invocations in one compilation

\* -------------------------------------------------------------- characters
QUOTE == "\""
BSLASH == "\\"
NL == "\n"
SP == " "

IdentChars == {"f", "n", "c", "o", "s", "t", "a", "i", "r", "I", "T", "E", "M", "S", "R", "C", "_"}
PunctChars == {":", ";", "&", "'", "="}
SpaceChars == {SP, NL}

\* ------------------------------------------------------------------ tokens
Ident(s) == [kind |-> "Ident", text |-> s, spacing |-> "Alone"]
Punct(c, sp) == [kind |-> "Punct", text |-> <<c>>, spacing |-> sp]
Lit(s) == [kind |-> "Literal", text |-> s, spacing |-> "Alone"]

\* Variant: the double quote is left unescaped.
EscapeCharNoQuote(c) ==
    IF c = BSLASH THEN <<BSLASH, BSLASH>>
    ELSE IF c = NL THEN <<BSLASH, "n">>
    ELSE <<c>>

\* Escaping done by Literal::string when a String is interpolated by quote!.
EscapeChar(c) ==
    IF c = QUOTE THEN <<BSLASH, QUOTE>>
    ELSE IF c = BSLASH THEN <<BSLASH, BSLASH>>
    ELSE IF c = NL THEN <<BSLASH, "n">>
    ELSE <<c>>

RECURSIVE Escape(_)
Escape(s) == IF s = <<>> THEN <<>> ELSE EscapeChar(Head(s)) \o Escape(Tail(s))

\* #item_str inside quote!: a String becomes one string-literal token.
LiteralString(s) == Lit(<<QUOTE>> \o Escape(s) \o <<QUOTE>>)

\* Value the compiler gives to the body of a string literal (escapes undone).
RECURSIVE Unescape(_)
Unescape(s) ==
    IF s = <<>> THEN <<>>
    ELSE IF Head(s) = BSLASH /\ Len(s) >= 2
         THEN <<(IF s[2] = "n" THEN NL ELSE s[2])>> \o Unescape(SubSeq(s, 3, Len(s)))
         ELSE <<Head(s)>> \o Unescape(Tail(s))


\* TokenStream::to_string: the tokens' source text, separated by one space,
\* with no space after a punctuation token that is joint with its successor.
RECURSIVE ToString(_)
ToString(ts) ==
    IF ts = <<>> THEN <<>>
    ELSE IF Len(ts) = 1 THEN ts[1].text
    ELSE ts[1].text
         \o (IF ts[1].kind = "Punct" /\ ts[1].spacing = "Joint" THEN <<>> ELSE <<SP>>)
         \o ToString(Tail(ts))

\* ----------------------------------------------------- str::parse (lexer)
\* Index of the quote closing the string literal opened at s[1], 0 if none.
RECURSIVE CloseQuote(_, _)
CloseQuote(s, i) ==
    IF i > Len(s) THEN 0
    ELSE IF s[i] = BSLASH THEN CloseQuote(s, i + 2)
    ELSE IF s[i] = QUOTE THEN i
    ELSE CloseQuote(s, i + 1)

\* A string literal token is well formed when its text is one quoted string.
WellFormedStr(lit) ==
    /\ lit.kind = "Literal"
    /\ Len(lit.text) >= 2
    /\ lit.text[1] = QUOTE
    /\ CloseQuote(lit.text, 2) = Len(lit.text)

\* String value of a literal: the text up to the first unescaped quote,
\* with the escapes undone.
StrValue(lit) == Unescape(SubSeq(lit.text, 2, CloseQuote(lit.text, 2) - 1))

RECURSIVE IdentEnd(_, _)
IdentEnd(s, i) == IF i <= Len(s) /\ s[i] \in IdentChars THEN IdentEnd(s, i + 1) ELSE i - 1

RECURSIVE Parse(_)
Parse(s) ==
    IF s = <<>> THEN [ok |-> TRUE, ts |-> <<>>]
    ELSE IF Head(s) \in SpaceChars THEN Parse(Tail(s))
    ELSE IF Head(s) = QUOTE THEN
        LET k == CloseQuote(s, 2) IN
        IF k = 0 THEN [ok |-> FALSE, ts |-> <<>>]
        ELSE LET r == Parse(SubSeq(s, k + 1, Len(s))) IN
             [ok |-> r.ok, ts |-> IF r.ok THEN <<Lit(SubSeq(s, 1, k))>> \o r.ts ELSE <<>>]
    ELSE IF Head(s) \in IdentChars THEN
        LET k == IdentEnd(s, 1)
            r == Parse(SubSeq(s, k + 1, Len(s))) IN
        [ok |-> r.ok, ts |-> IF r.ok THEN <<Ident(SubSeq(s, 1, k))>> \o r.ts ELSE <<>>]
    ELSE IF Head(s) \in PunctChars THEN
        LET sp == IF Len(s) >= 2 /\ s[2] \in PunctChars THEN "Joint" ELSE "Alone"
            r == Parse(Tail(s)) IN
        [ok |-> r.ok, ts |-> IF r.ok THEN <<Punct(Head(s), sp)>> \o r.ts ELSE <<>>]
    ELSE [ok |-> FALSE, ts |-> <<>>]

\* ------------------------------------------------------- make_item_const
ITEM_SRC == <<"I", "T", "E", "M", "_", "S", "R", "C">>

\* Variant: the constant is named after the item text.
QuoteItemConstNamed(item_str) ==
    << Ident(<<"c", "o", "n", "s", "t">>),
       Ident(IF item_str = <<>> THEN ITEM_SRC ELSE ITEM_SRC \o <<"_">> \o <<"f">>),
       Punct(":", "Alone"),
       Punct("&", "Alone"),
       Punct("'", "Joint"),
       Ident(<<"s", "t", "a", "t", "i", "c">>),
       Ident(<<"s", "t", "r">>),
       Punct("=", "Alone"),
       LiteralString(item_str),
       Punct(";", "Alone") >>

\* quote! { const ITEM_SRC: &'static str = #item_str; }
QuoteItemConst(item_str) ==
    << Ident(<<"c", "o", "n", "s", "t">>),
       Ident(ITEM_SRC),
       Punct(":", "Alone"),
       Punct("&", "Alone"),
       Punct("'", "Joint"),
       Ident(<<"s", "t", "a", "t", "i", "c">>),
       Ident(<<"s", "t", "r">>),
       Punct("=", "Alone"),
       LiteralString(item_str),
       Punct(";", "Alone") >>

\* Variant: the text of every invocation after the first carries a residue
\* of the earlier ones.
make_item_const_stateful(tokens) ==
    LET item_str == ToString(tokens) \o (IF Len(log) > 0 THEN <<SP>> ELSE <<>>)
    IN QuoteItemConst(item_str)

make_item_const(tokens) ==
    LET item_str == ToString(tokens) IN QuoteItemConst(item_str)

\* Variant: an empty import is rejected.
make_item_const_outcome_validating(tokens) ==
    IF tokens = <<>> THEN "panic" ELSE "ok"

\* The body of make_item_const has no early return, no unwrap and no panic.
make_item_const_outcome(tokens) == "ok"

\* Variant: the body also prints the item text.
make_item_const_stdout_debug(tokens) == ToString(tokens) \o <<NL>>

\* The body of make_item_const writes nothing to standard output.
make_item_const_stdout(tokens) == <<>>

\* ----------------------------------------------------- print_foreign_item
\* Variant: print! in place of println!.
PrintNoNewline(text) == text

\* println!("{}", text): the text followed by one line terminator.
Println(text) == text \o <<NL>>

print_foreign_item_stdout(tokens) == Println(ToString(tokens))

\* Variant: a source text holding an unterminated string literal.
NotEmptyStr == <<QUOTE>>

\* The string literal "" that the body parses for its return value.
EmptyStr == <<>>

\* "".parse(): the Result that the body unwraps.
print_foreign_item_parse(tokens) == Parse(EmptyStr)

print_foreign_item_outcome(tokens) ==
    IF print_foreign_item_parse(tokens).ok THEN "ok" ELSE "panic"

\* Variant: the imported tokens are passed through to the caller.
print_foreign_item_passthrough(tokens) == tokens

print_foreign_item(tokens) == print_foreign_item_parse(tokens).ts

\* ------------------------------------------------------------------ inputs
\* Tokens an imported item can consist of.
ImportTokens ==
    { Ident(<<"f">>),
      Punct(":", "Joint"),
      Lit(<<QUOTE, BSLASH, QUOTE, QUOTE>>),
      Lit(<<QUOTE, NL, QUOTE>>) }

RECURSIVE StreamsOfLen(_)
StreamsOfLen(n) ==
    IF n = 0 THEN {<<>>}
    ELSE {Append(s, t) : s \in StreamsOfLen(n - 1), t \in ImportTokens}

Streams == UNION {StreamsOfLen(n) : n \in 0..MaxLen}

\* Paths written at the use site.
Refs ==
    { <<Ident(<<"f">>)>>,
      <<Ident(<<"a">>), Punct(":", "Joint"), Punct(":", "Alone"), Ident(<<"f">>)>> }

\* ------------------------------------------------------------ state machine
Init ==
    /\ log = <<>>
    /\ stdout = <<>>
    /\ emitted = <<>>

Invocation(macro, ref, tokens, outcome, printed, ret) ==
    [macro |-> macro, ref |-> ref, tokens |-> tokens,
     outcome |-> outcome, printed |-> printed, ret |-> ret]

\* One expansion of make_item_const!(ref) whose body received `tokens`.
MakeItemConst ==
    \E ref \in Refs, tokens \in Streams :
        /\ Len(log) < MaxInvocations
        /\ LET outcome == make_item_const_outcome(tokens)
               printed == make_item_const_stdout(tokens)
               ret == IF outcome = "ok" THEN make_item_const(tokens) ELSE <<>>
           IN /\ stdout' = stdout \o printed
              /\ emitted' = emitted \o ret
              /\ log' = Append(log, Invocation("make_item_const", ref, tokens,
                                               outcome, printed, ret))

\* One expansion of print_foreign_item!(ref) whose body received `tokens`.
PrintForeignItem ==
    \E ref \in Refs, tokens \in Streams :
        /\ Len(log) < MaxInvocations
        /\ LET printed == print_foreign_item_stdout(tokens)
               outcome == print_foreign_item_outcome(tokens)
               ret == IF outcome = "ok" THEN print_foreign_item(tokens) ELSE <<>>
           IN /\ stdout' = stdout \o printed
              /\ emitted' = emitted \o ret
              /\ log' = Append(log, Invocation("print_foreign_item", ref, tokens,
                                               outcome, printed, ret))

Next == MakeItemConst \/ PrintForeignItem

Spec == Init /\ [][Next]_vars

\* ------------------------------------------------------------- properties
PrintIdx == {i \in DOMAIN log : log[i].macro = "print_foreign_item"}
MakeIdx == {i \in DOMAIN log : log[i].macro = "make_item_const"}

Texts(ts) == [k \in DOMAIN ts |-> ts[k].text]

\* Source text of the tokens before the interpolated literal, and after it.
DeclHead ==
    << <<"c", "o", "n", "s", "t">>, ITEM_SRC, <<":">>, <<"&">>, <<"'">>,
       <<"s", "t", "a", "t", "i", "c">>, <<"s", "t", "r">>, <<"=">> >>

\* Names declared by `const <name>` in a token stream, in order.
RECURSIVE DeclaredNames(_)
DeclaredNames(ts) ==
    IF Len(ts) < 2 THEN <<>>
    ELSE IF ts[1].kind = "Ident" /\ ts[1].text = <<"c", "o", "n", "s", "t">>
         THEN <<ts[2].text>> \o DeclaredNames(SubSeq(ts, 3, Len(ts)))
         ELSE DeclaredNames(Tail(ts))

RECURSIVE CountNL(_)
CountNL(s) ==
    IF s = <<>> THEN 0 ELSE (IF Head(s) = NL THEN 1 ELSE 0) + CountNL(Tail(s))

\* Output that the invocations of a log account for, in order.
RECURSIVE ExpectedStdout(_)
ExpectedStdout(l) ==
    IF l = <<>> THEN <<>>
    ELSE (IF Head(l).macro = "print_foreign_item"
          THEN ToString(Head(l).tokens) \o <<NL>> ELSE <<>>)
         \o ExpectedStdout(Tail(l))

RECURSIVE ExpectedEmitted(_)
ExpectedEmitted(l) ==
    IF l = <<>> THEN <<>>
    ELSE (IF Head(l).macro = "make_item_const" THEN Head(l).ret ELSE <<>>)
         \o ExpectedEmitted(Tail(l))

\* C1: every print_foreign_item invocation returns the empty token stream,
\* and a compilation that only used print_foreign_item has no emitted token.
C1_PrintReturnsEmpty ==
    /\ \A i \in PrintIdx : log[i].outcome = "ok" /\ log[i].ret = <<>>
    /\ (MakeIdx = {} => emitted = <<>>)

C1_Witness ==
    \E i \in PrintIdx : Len(log[i].tokens) = MaxLen /\ log[i].tokens[1].kind = "Ident"

\* C2: what a print_foreign_item invocation writes is the text of the
\* imported tokens followed by exactly one line terminator; it is the end of
\* standard output right after the invocation, and it is not the text of the
\* path written at the use site unless the two texts coincide.
C2_PrintsImportedText ==
    /\ \A i \in PrintIdx :
          /\ log[i].printed = ToString(log[i].tokens) \o <<NL>>
          /\ (ToString(log[i].ref) # ToString(log[i].tokens)
                => log[i].printed # ToString(log[i].ref) \o <<NL>>)
    /\ (Len(log) > 0 /\ Len(log) \in PrintIdx =>
          LET e == ToString(log[Len(log)].tokens) \o <<NL>> IN
          /\ Len(stdout) >= Len(e)
          /\ SubSeq(stdout, Len(stdout) - Len(e) + 1, Len(stdout)) = e)

C2_Witness ==
    \E i \in PrintIdx :
        /\ log[i].tokens # <<>>
        /\ ToString(log[i].ref) # ToString(log[i].tokens)
        /\ Len(log[i].ref) > 1

\* C3: every make_item_const invocation returns exactly the declaration
\* const ITEM_SRC : & 'static str = <string literal> ; and the value of the
\* string literal is, character for character, the text of the imported
\* tokens.
C3_ConstHoldsItemText ==
    \A i \in MakeIdx :
        LET r == log[i].ret IN
        /\ Len(r) = 10
        /\ SubSeq(Texts(r), 1, 8) = DeclHead
        /\ r[10].kind = "Punct" /\ r[10].text = <<";">>
        /\ WellFormedStr(r[9])
        /\ StrValue(r[9]) = ToString(log[i].tokens)
        /\ Len(DeclaredNames(r)) = 1

C3_Witness ==
    \E i \in MakeIdx :
        /\ Len(log[i].tokens) = 2
        /\ log[i].tokens[1].kind = "Literal"
        /\ QUOTE \in {ToString(log[i].tokens)[k] : k \in DOMAIN ToString(log[i].tokens)}

C7_NoValidation ==
    /\ \A i \in MakeIdx : log[i].outcome = "ok" /\ log[i].ret # <<>>
    /\ Len(DeclaredNames(emitted)) = Cardinality(MakeIdx)

C7_Witness ==
    /\ Len(log) = 2
    /\ MakeIdx = {1, 2}
    /\ log[1].tokens = <<>>
    /\ log[2].tokens = <<Punct(":", "Joint")>>

\* C8: no print_foreign_item invocation panics, whatever tokens it imported.
C8_PrintNeverPanics ==
    \A i \in PrintIdx : log[i].outcome # "panic"

C8_Witness ==
    \E i \in PrintIdx : Len(log[i].tokens) = 1 /\ log[i].tokens[1].kind = "Literal"

\* C9: every declared constant is named ITEM_SRC whatever was imported, so
\* the emitted code of n make_item_const invocations declares ITEM_SRC n
\* times.
C9_FixedName ==
    LET names == DeclaredNames(emitted) IN
    /\ \A k \in DOMAIN names : names[k] = ITEM_SRC
    /\ Len(names) = Cardinality(MakeIdx)
    /\ \A i \in MakeIdx : log[i].ret[2].text = ITEM_SRC

C9_Witness ==
    /\ MakeIdx = {1, 2}
    /\ log[1].tokens # log[2].tokens
    /\ DeclaredNames(emitted) = <<ITEM_SRC, ITEM_SRC>>

\* C10 as stated: standard output has one line per print_foreign_item
\* invocation and the emitted code one ITEM_SRC declaration per
\* make_item_const invocation.
C10_OneLinePerPrint ==
    /\ CountNL(stdout) = Cardinality(PrintIdx)
    /\ Len(DeclaredNames(emitted)) = Cardinality(MakeIdx)

\* C10 amended: make_item_const writes nothing and print_foreign_item emits
\* nothing; standard output is, in order, the text of each
\* print_foreign_item invocation followed by one line terminator (more than
\* one line when the text itself holds a line break), and the emitted code
\* is, in order, one ITEM_SRC declaration per make_item_const invocation.
C10_Frame ==
    /\ \A i \in MakeIdx : log[i].printed = <<>>
    /\ \A i \in PrintIdx : log[i].ret = <<>>
    /\ stdout = ExpectedStdout(log)
    /\ emitted = ExpectedEmitted(log)
    /\ Len(emitted) = 10 * Cardinality(MakeIdx)
    /\ Len(DeclaredNames(emitted)) = Cardinality(MakeIdx)

C10_Witness ==
    /\ Len(log) = 2
    /\ log[1].macro = "make_item_const"
    /\ log[2].macro = "print_foreign_item"
    /\ CountNL(stdout) = 2

====
